---- MODULE Spec2Model ----
(***************************************************************************)
(* TradingAgents: one run of the multi-agent deliberation pipeline         *)
(* (analysts with tool loops, bull/bear debate, research manager, trader,  *)
(* three-way risk debate, risk judge, signal extraction) as a state        *)
(* machine over the shared agent state.                                    *)
(*                                                                         *)
(* Text is modelled as a sequence of tokens, so that Python's string       *)
(* concatenation is sequence concatenation and "" is the empty sequence.   *)
(* Every model reply is a fresh opaque text Text(n), n the number of the   *)
(* model invocation; whether a reply is empty, asks for a tool, or the     *)
(* invocation raises, is drawn nondeterministically.                       *)
(*                                                                         *)
(* Specifications:                                                         *)
(*   Spec          one run of a new process, under every configuration     *)
(*   RememberSpec  a run with lessons of earlier runs in the stores,       *)
(*                 followed by reflect_and_remember                        *)
(*   AnyOrderSpec  the analyst stage, the analysts in every order          *)
(*   ToolLoopSpec  the analyst stage under a model that always asks for a  *)
(*                 tool                                                    *)
(*   StoreSpec     the memory stores after a run: reflections and queries  *)
(*   AnyOrderDebateSpec  the analysts in every order, then the debate      *)
(*   ExtractSpec   a run whose signal is extracted again and again         *)
(*   DataDirSpec   the dataflows package: import, set_config and the news  *)
(*                 tool on the data files                                  *)
(***************************************************************************)
EXTENDS Integers, Sequences, FiniteSets, TLC

\* ------------------------------------------------------------------ bounds

\* largest max_debate_rounds / max_risk_discuss_rounds a configuration sets
MaxRounds == 2
\* cap on the tool rounds of one run (the code has none)
MaxToolRounds == 1
\* tool rounds followed for a model that asks for a tool on every response
MaxLoopRounds == 3
\* records a memory store holds before a run (0 .. PriorRecords)
PriorRecords == 3
\* records all the stores hold together when only the memory is exercised
MaxRecords == 2
\* largest number of matches asked of a store when only the memory is exercised
MaxMatches == 2
\* model invocations followed when the signal is extracted again and again
MaxCalls == 16

\* ------------------------------------------------------------------ text

Tok(k, n) == [k |-> k, n |-> n]
Str(k) == <<Tok(k, 0)>>
Text(n) == <<Tok("text", n)>>
Empty == <<>>
NL == Str("\n")

\* s.startswith(p)
StartsWith(s, p) == Len(s) >= Len(p) /\ SubSeq(s, 1, Len(p)) = p

\* dict.get(key, default)
Get(d, key, default) == IF key \in DOMAIN d THEN d[key] ELSE default

\* ------------------------------------------------------------------ tools

Return(s) == [raised |-> FALSE, value |-> s]
Raise(exc) == [raised |-> TRUE, value |-> Str(exc)]

\* stats: what StockstatsUtils.get_stock_stats does: "value" (a number),
\* "N/A" (no matching row) or "raise".
get_stockstats_indicator(stats) ==
    IF stats = "raise" THEN Empty
    ELSE IF stats = "N/A" THEN Str("N/A: Not a trading day (weekend or holiday)")
    ELSE Str("value")

\* the while loop over curr_date >= before: days = look_back_days .. 0
RECURSIVE IndString(_, _, _)
IndString(days, trading, stats) ==
    IF days < 0 THEN Empty
    ELSE (IF trading
          THEN Str("date: ") \o get_stockstats_indicator(stats) \o NL
          ELSE Empty)
         \o IndString(days - 1, trading, stats)

get_stock_stats_indicators_window(supported, look_back_days, online, priceFile, trading, stats) ==
    IF ~supported THEN Raise("ValueError")
    ELSE IF ~online /\ ~priceFile THEN Raise("FileNotFoundError")
    ELSE Return(Str("## indicator values from before to end_date:\n\n")
                \o IndString(look_back_days, online \/ trading, stats)
                \o NL \o NL \o Str("description"))

get_simfin_balance_sheet(fileExists, hasReport) ==
    IF ~fileExists THEN Raise("FileNotFoundError")
    ELSE IF ~hasReport THEN Return(Empty)
    ELSE Return(Str("## freq balance sheet for ticker released on date: \n")
                \o Str("latest_balance_sheet") \o Str("\n\nThis includes metadata"))

\* local: get_data_in_range finds data in range before the download;
\* downloaded: download_finnhub_data returns a non-empty dict;
\* reread: get_data_in_range finds data in range after the download.
get_finnhub_news(local, downloaded, reread) ==
    LET result1 == local
        result2 == IF ~result1 /\ downloaded THEN reread ELSE result1
    IN  IF ~result1 /\ ~result2
        THEN Return(Str("no news data for ticker from before to curr_date"))
        ELSE Return(Str("## ticker News, from before to curr_date:\n")
                    \o Str("### headline (day)\nsummary") \o NL \o NL)

get_reddit_company_news(posts) ==
    IF ~posts THEN Return(Empty)
    ELSE Return(Str("##ticker News Reddit, from before to curr_date:\n\n")
                \o Str("### title\n\ncontent\n\n"))

\* ------------------------------------------------------------------ state

VARIABLES
    max_debate_rounds,        \* config["max_debate_rounds"]
    max_risk_discuss_rounds,  \* config["max_risk_discuss_rounds"]
    state,                    \* the shared agent state, a dict
    node,                     \* the node the graph runs next
    decision,                 \* what propagate returns beside the final state
    error,                    \* the exception that left the run, if any
    calls,                    \* model invocations so far
    toolRounds,               \* tool rounds so far
    turns,                    \* history: the debate nodes that took a turn, in order
    toolLog,                  \* history: the tool calls made and what they gave
    selected_analysts,        \* the analyst nodes in the order the graph runs them
    memory,                   \* the memory store of each role: its records, in insertion order
    lessons,                  \* history: the last memory query and the lessons text built from it
    writes,                   \* history: the report keys the nodes' patches held, in order
    dataflows                 \* the dataflows package: its configuration, the DATA_DIR names, the data files

config == <<max_debate_rounds, max_risk_discuss_rounds, selected_analysts, dataflows>>
vars == <<max_debate_rounds, max_risk_discuss_rounds, state, node, decision,
          error, calls, toolRounds, turns, toolLog, selected_analysts,
          memory, lessons, writes, dataflows>>

Analysts == <<"Market Analyst", "Social Analyst", "News Analyst", "Fundamentals Analyst">>
AnalystNodes == {Analysts[i] : i \in 1..Len(Analysts)}
Debaters == {"Bull Researcher", "Bear Researcher"}
RiskDebaters == {"Risky Analyst", "Safe Analyst", "Neutral Analyst"}

ReportField(a) ==
    CASE a = "Market Analyst" -> "market_report"
      [] a = "Social Analyst" -> "sentiment_report"
      [] a = "News Analyst" -> "news_report"
      [] a = "Fundamentals Analyst" -> "fundamentals_report"
ReportFields == {ReportField(a) : a \in AnalystNodes}

ToolsNode(a) ==
    CASE a = "Market Analyst" -> "tools_market"
      [] a = "Social Analyst" -> "tools_social"
      [] a = "News Analyst" -> "tools_news"
      [] a = "Fundamentals Analyst" -> "tools_fundamentals"

NoError == [at |-> "", what |-> ""]

\* ------------------------------------------------------------------ model

\* what llm.invoke gives: it raises, or returns a message with content and
\* tool calls
ModelRaises == [raised |-> TRUE, content |-> Empty, tool_calls |-> <<>>]
ModelSays(content) == [raised |-> FALSE, content |-> content, tool_calls |-> <<>>]
ModelCallsTool(content) == [raised |-> FALSE, content |-> content, tool_calls |-> <<"tool">>]

\* a model bound to tools (the analysts)
ToolModelResults ==
    {ModelRaises, ModelSays(Empty), ModelSays(Text(calls + 1))}
    \cup (IF toolRounds < MaxToolRounds
          THEN {ModelCallsTool(Empty), ModelCallsTool(Text(calls + 1))}
          ELSE {})

\* a model that asks for a tool on every response
LoopingModelResults == {ModelCallsTool(Empty), ModelCallsTool(Text(calls + 1))}

\* a model without tools (debaters, managers, trader)
TextModelResults == {ModelRaises, ModelSays(Text(calls + 1))}

AIMessage(result) ==
    [type |-> "ai", content |-> result.content, tool_calls |-> result.tool_calls]
ToolMessage(content) ==
    [type |-> "tool", content |-> content, tool_calls |-> <<>>]

\* ------------------------------------------------------------------ merge

\* the graph merges a node's patch by key; messages are appended
Apply(s, patch) ==
    [k \in (DOMAIN s) \cup (DOMAIN patch) |->
        IF k \notin DOMAIN patch THEN s[k]
        ELSE IF k = "messages" THEN s[k] \o patch[k]
        ELSE patch[k]]

\* ------------------------------------------------------------------ analysts

\* report = ""; if len(result.tool_calls) == 0: report = result.content
AnalystReportAlways(result) == result.content
AnalystReport(result) ==
    IF Len(result.tool_calls) = 0 THEN result.content ELSE Empty

market_analyst_node_echo(s, result) ==
    [messages |-> <<AIMessage(result), AIMessage(result)>>,
     market_report |-> AnalystReport(result)]
market_analyst_node(s, result) ==
    [messages |-> <<AIMessage(result)>>, market_report |-> AnalystReport(result)]

social_media_analyst_node(s, result) ==
    [messages |-> <<AIMessage(result)>>, sentiment_report |-> AnalystReport(result)]

news_analyst_node_market(s, result) ==
    [messages |-> <<AIMessage(result)>>, market_report |-> AnalystReport(result)]
news_analyst_node(s, result) ==
    [messages |-> <<AIMessage(result)>>, news_report |-> AnalystReport(result)]

fundamentals_analyst_node_silent(s, result) ==
    [messages |-> <<AIMessage(result)>>]
fundamentals_analyst_node(s, result) ==
    [messages |-> <<AIMessage(result)>>, fundamentals_report |-> AnalystReport(result)]

AnalystPatch(a, s, result) ==
    CASE a = "Market Analyst" -> market_analyst_node(s, result)
      [] a = "Social Analyst" -> social_media_analyst_node(s, result)
      [] a = "News Analyst" -> news_analyst_node(s, result)
      [] a = "Fundamentals Analyst" -> fundamentals_analyst_node(s, result)

\* the report keys a node's patch holds, with the values it gives them
ReportKeys == <<"market_report", "sentiment_report", "news_report", "fundamentals_report">>
ReportWrites(n, patch) ==
    LET InPatch(w) == w.key \in DOMAIN patch
    IN  SelectSeq([i \in 1..Len(ReportKeys) |->
                      [by |-> n, key |-> ReportKeys[i],
                       value |-> Get(patch, ReportKeys[i], Empty)]],
                  InPatch)

\* the tool calls an analyst can make: every input of its tool, with whether
\* the input is a failure mode (missing data, unsupported parameter, failed
\* download or computation) and what the tool gives
LookBackDays == 1

MarketToolCalls ==
    {[tool |-> "get_stock_stats_indicators_window",
      failed |-> ~sup \/ (~on /\ ~pf) \/ ((on \/ tr) /\ st = "raise"),
      result |-> get_stock_stats_indicators_window(sup, LookBackDays, on, pf, tr, st)] :
        sup \in BOOLEAN, on \in BOOLEAN, pf \in BOOLEAN, tr \in BOOLEAN,
        st \in {"value", "N/A", "raise"}}

SocialToolCalls ==
    {[tool |-> "get_reddit_company_news", failed |-> ~posts,
      result |-> get_reddit_company_news(posts)] : posts \in BOOLEAN}

NewsToolCalls ==
    {[tool |-> "get_finnhub_news",
      failed |-> ~local /\ ~(dl /\ re),
      result |-> get_finnhub_news(local, dl, re)] :
        local \in BOOLEAN, dl \in BOOLEAN, re \in BOOLEAN}

FundamentalsToolCalls ==
    {[tool |-> "get_simfin_balance_sheet",
      failed |-> ~fe \/ ~hr,
      result |-> get_simfin_balance_sheet(fe, hr)] : fe \in BOOLEAN, hr \in BOOLEAN}

ToolCalls(a) ==
    CASE a = "Market Analyst" -> MarketToolCalls
      [] a = "Social Analyst" -> SocialToolCalls
      [] a = "News Analyst" -> NewsToolCalls
      [] a = "Fundamentals Analyst" -> FundamentalsToolCalls

\* ------------------------------------------------------------------ memory

\* the roles that own a memory store
Roles == {"bull", "bear", "trader", "invest_judge", "risk_manager"}

NoRecords == [r \in Roles |-> <<>>]

Min(a, b) == IF a <= b THEN a ELSE b

\* stands for the similarity of the embeddings of two texts: the number of
\* pieces of a that occur in b
Similarity(a, b) == Cardinality({i \in 1..Len(a) : \E j \in 1..Len(b) : a[i] = b[j]})

\* the index, not in taken, of the record most similar to situation; of
\* equally similar records the oldest
BestMatch(store, situation, taken) ==
    CHOOSE i \in (1..Len(store)) \ taken :
        \A j \in (1..Len(store)) \ taken :
            \/ Similarity(store[i].situation, situation) > Similarity(store[j].situation, situation)
            \/ /\ Similarity(store[i].situation, situation) = Similarity(store[j].situation, situation)
               /\ i <= j

RECURSIVE TopMatches(_, _, _, _)
TopMatches(store, situation, n, taken) ==
    IF n <= 0 \/ taken = 1..Len(store) THEN <<>>
    ELSE LET i == BestMatch(store, situation, taken)
         IN  <<[matched_situation |-> store[i].situation,
                recommendation |-> store[i].recommendation,
                similarity_score |-> Similarity(store[i].situation, situation)]>>
             \o TopMatches(store, situation, n - 1, taken \cup {i})

\* memory.get_memories(current_situation, n_matches)
get_memories_all(store, current_situation, matches) ==
    TopMatches(store, current_situation, Len(store), {})
get_memories(store, current_situation, matches) ==
    TopMatches(store, current_situation, matches, {})

\* memory.add_situations(situations_and_advice), a list of (situation, advice)
add_situations(store, situations_and_advice) ==
    store \o [i \in 1..Len(situations_and_advice) |->
                [situation |-> situations_and_advice[i][1],
                 recommendation |-> situations_and_advice[i][2]]]

\* n_matches=2
n_matches == 2

\* curr_situation = f"{market_research_report}\n\n{sentiment_report}\n\n{news_report}\n\n{fundamentals_report}"
curr_situation(s) ==
    s.market_report \o Str("\n\n") \o s.sentiment_report \o Str("\n\n")
        \o s.news_report \o Str("\n\n") \o s.fundamentals_report

\* past_memory_str = ""; for rec in past_memories: past_memory_str += rec["recommendation"] + "\n\n"
RECURSIVE PastMemoryLines(_)
PastMemoryLines(past_memories) ==
    IF past_memories = <<>> THEN Empty
    ELSE Head(past_memories).recommendation \o Str("\n\n") \o PastMemoryLines(Tail(past_memories))

PastMemoryStrNone(past_memories) ==
    IF past_memories = <<>> THEN Str("None") ELSE PastMemoryLines(past_memories)
PastMemoryStr(past_memories) == PastMemoryLines(past_memories)

\* the nodes that query a memory store, and the store each queries
Recallers == {"Bull Researcher", "Bear Researcher", "Research Manager"}
MemoryOf(n) ==
    CASE n = "Bull Researcher" -> "bull"
      [] n = "Bear Researcher" -> "bear"
      [] n = "Research Manager" -> "invest_judge"

\* a query of a store and the lessons text built from what it gives
Recall(by, store, situation, matches) ==
    LET past_memories == get_memories(store, situation, matches)
    IN  [by |-> by, n_matches |-> matches, stored |-> Len(store),
         past_memories |-> past_memories,
         past_memory_str |-> PastMemoryStr(past_memories)]

\* the store after a node's query: get_memories is the node's only use of
\* its store, and a query leaves the store as it is
StoreAfterRecallAdds(store, situation, matches) ==
    add_situations(store, <<<<situation, PastMemoryStr(get_memories(store, situation, matches))>>>>)
StoreAfterRecall(store, situation, matches) == store

NoQuery ==
    [by |-> "", n_matches |-> 0, stored |-> 0, past_memories |-> <<>>,
     past_memory_str |-> Empty]

\* ------------------------------------------------------------------ reflection

extract_current_situation_news_first(current_state) ==
    current_state.news_report \o Str("\n\n") \o current_state.market_report
        \o Str("\n\n") \o current_state.sentiment_report \o Str("\n\n")
        \o current_state.fundamentals_report
extract_current_situation(current_state) ==
    current_state.market_report \o Str("\n\n") \o current_state.sentiment_report
        \o Str("\n\n") \o current_state.news_report \o Str("\n\n")
        \o current_state.fundamentals_report

\* result = self.quick_thinking_llm.invoke(messages).content
reflect_on_component(component_type, report, situation, returns_losses, response) ==
    response.content

reflect_bull_researcher_reset(current_state, returns_losses, bull_memory, response) ==
    add_situations(<<>>, <<<<extract_current_situation(current_state), response.content>>>>)
reflect_bull_researcher(current_state, returns_losses, bull_memory, response) ==
    LET situation == extract_current_situation(current_state)
        bull_debate_history == current_state.investment_debate_state.bull_history
        result == reflect_on_component("BULL", bull_debate_history, situation,
                                       returns_losses, response)
    IN  add_situations(bull_memory, <<<<situation, result>>>>)

reflect_bear_researcher_twice(current_state, returns_losses, bear_memory, response) ==
    add_situations(bear_memory,
                   <<<<extract_current_situation(current_state), response.content>>,
                     <<extract_current_situation(current_state), response.content>>>>)
reflect_bear_researcher(current_state, returns_losses, bear_memory, response) ==
    LET situation == extract_current_situation(current_state)
        bear_debate_history == current_state.investment_debate_state.bear_history
        result == reflect_on_component("BEAR", bear_debate_history, situation,
                                       returns_losses, response)
    IN  add_situations(bear_memory, <<<<situation, result>>>>)

reflect_trader(current_state, returns_losses, trader_memory, response) ==
    LET situation == extract_current_situation(current_state)
        trader_decision == current_state.trader_investment_plan
        result == reflect_on_component("TRADER", trader_decision, situation,
                                       returns_losses, response)
    IN  add_situations(trader_memory, <<<<situation, result>>>>)

reflect_invest_judge(current_state, returns_losses, invest_judge_memory, response) ==
    LET situation == extract_current_situation(current_state)
        judge_decision == current_state.investment_debate_state.judge_decision
        result == reflect_on_component("INVEST JUDGE", judge_decision, situation,
                                       returns_losses, response)
    IN  add_situations(invest_judge_memory, <<<<situation, result>>>>)

reflect_risk_manager(current_state, returns_losses, risk_manager_memory, response) ==
    LET situation == extract_current_situation(current_state)
        judge_decision == current_state.risk_debate_state.judge_decision
        result == reflect_on_component("RISK JUDGE", judge_decision, situation,
                                       returns_losses, response)
    IN  add_situations(risk_manager_memory, <<<<situation, result>>>>)

\* the Reflector's method for a role, applied to the role's store
ReflectOn(role, current_state, returns_losses, store, response) ==
    CASE role = "bull" -> reflect_bull_researcher(current_state, returns_losses, store, response)
      [] role = "bear" -> reflect_bear_researcher(current_state, returns_losses, store, response)
      [] role = "trader" -> reflect_trader(current_state, returns_losses, store, response)
      [] role = "invest_judge" -> reflect_invest_judge(current_state, returns_losses, store, response)
      [] role = "risk_manager" -> reflect_risk_manager(current_state, returns_losses, store, response)

\* the returns or losses a position can have made
Returns == {-1000, 1000}

\* ------------------------------------------------------------------ debate

\* "count": investment_debate_state["count"] + 1
BullCountDown(investment_debate_state) == investment_debate_state.count - 1
BullCount(investment_debate_state) == investment_debate_state.count + 1

\* bull_node: state and the model's response -> patch
bull_node_stale(s, response) ==
    LET investment_debate_state == s.investment_debate_state
        argument == Str("Bull Analyst: ") \o response.content
    IN  [investment_debate_state |->
            [history |-> Get(investment_debate_state, "history", Empty) \o NL \o argument,
             bull_history |-> Get(investment_debate_state, "bull_history", Empty) \o NL \o argument,
             bear_history |-> Get(investment_debate_state, "bear_history", Empty),
             current_response |-> Get(investment_debate_state, "current_response", Empty),
             count |-> investment_debate_state.count + 1]]
bull_node_forgets(s, response) ==
    LET investment_debate_state == s.investment_debate_state
        argument == Str("Bull Analyst: ") \o response.content
    IN  [investment_debate_state |->
            [history |-> Get(investment_debate_state, "history", Empty) \o NL \o argument,
             bull_history |-> Get(investment_debate_state, "bull_history", Empty),
             bear_history |-> Get(investment_debate_state, "bear_history", Empty),
             current_response |-> argument,
             count |-> investment_debate_state.count + 1]]
bull_node(s, response) ==
    LET investment_debate_state == s.investment_debate_state
        history == Get(investment_debate_state, "history", Empty)
        bull_history == Get(investment_debate_state, "bull_history", Empty)
        argument == Str("Bull Analyst: ") \o response.content
    IN  [investment_debate_state |->
            [history |-> history \o NL \o argument,
             bull_history |-> bull_history \o NL \o argument,
             bear_history |-> Get(investment_debate_state, "bear_history", Empty),
             current_response |-> argument,
             count |-> BullCount(investment_debate_state)]]

\* argument = f"Bear Analyst: {response.content}"
BearArgumentBullLabel(response) == Str("Bull Analyst: ") \o response.content
BearArgument(response) == Str("Bear Analyst: ") \o response.content

bear_node_overwrites(s, response) ==
    LET investment_debate_state == s.investment_debate_state
        argument == Str("Bear Analyst: ") \o response.content
    IN  [investment_debate_state |->
            [history |-> Get(investment_debate_state, "history", Empty) \o NL \o argument,
             bear_history |-> Get(investment_debate_state, "bear_history", Empty) \o NL \o argument,
             bull_history |-> Empty,
             current_response |-> argument,
             count |-> investment_debate_state.count + 1]]
bear_node(s, response) ==
    LET investment_debate_state == s.investment_debate_state
        history == Get(investment_debate_state, "history", Empty)
        bear_history == Get(investment_debate_state, "bear_history", Empty)
        argument == BearArgument(response)
    IN  [investment_debate_state |->
            [history |-> history \o NL \o argument,
             bear_history |-> bear_history \o NL \o argument,
             bull_history |-> Get(investment_debate_state, "bull_history", Empty),
             current_response |-> argument,
             count |-> investment_debate_state.count + 1]]

\* "count": investment_debate_state["count"]
ManagerCountUp(investment_debate_state) == investment_debate_state.count + 1
ManagerCount(investment_debate_state) == investment_debate_state.count

research_manager_node_no_plan(s, response) ==
    [investment_debate_state |->
        [judge_decision |-> response.content,
         history |-> Get(s.investment_debate_state, "history", Empty),
         bear_history |-> Get(s.investment_debate_state, "bear_history", Empty),
         bull_history |-> Get(s.investment_debate_state, "bull_history", Empty),
         current_response |-> response.content,
         count |-> s.investment_debate_state.count]]
research_manager_node_clears(s, response) ==
    [investment_debate_state |->
        [judge_decision |-> response.content,
         history |-> Empty,
         bear_history |-> Get(s.investment_debate_state, "bear_history", Empty),
         bull_history |-> Get(s.investment_debate_state, "bull_history", Empty),
         current_response |-> response.content,
         count |-> s.investment_debate_state.count],
     investment_plan |-> response.content]
research_manager_node(s, response) ==
    LET investment_debate_state == s.investment_debate_state
    IN  [investment_debate_state |->
            [judge_decision |-> response.content,
             history |-> Get(investment_debate_state, "history", Empty),
             bear_history |-> Get(investment_debate_state, "bear_history", Empty),
             bull_history |-> Get(investment_debate_state, "bull_history", Empty),
             current_response |-> response.content,
             count |-> ManagerCount(investment_debate_state)],
         investment_plan |-> response.content]

trader_node(s, response) ==
    [trader_investment_plan |-> response.content]

\* ------------------------------------------------------------------ risk debate

\* "latest_speaker": "Risky"
RiskyLatestSpeakerSafe == Str("Safe")
RiskyLatestSpeaker == Str("Risky")

risky_node_rebuts_unheard(s, response) ==
    LET risk_debate_state == s.risk_debate_state
        argument == Str("Risky Analyst: ") \o response.content
    IN  [risk_debate_state |->
            [history |-> Get(risk_debate_state, "history", Empty) \o NL \o argument,
             risky_history |-> Get(risk_debate_state, "risky_history", Empty) \o NL \o argument,
             safe_history |-> Get(risk_debate_state, "safe_history", Empty),
             neutral_history |-> Get(risk_debate_state, "neutral_history", Empty),
             latest_speaker |-> Str("Risky"),
             current_risky_response |-> argument,
             current_safe_response |-> argument,
             current_neutral_response |-> Get(risk_debate_state, "current_neutral_response", Empty),
             count |-> risk_debate_state.count + 1]]
risky_node(s, response) ==
    LET risk_debate_state == s.risk_debate_state
        history == Get(risk_debate_state, "history", Empty)
        risky_history == Get(risk_debate_state, "risky_history", Empty)
        argument == Str("Risky Analyst: ") \o response.content
    IN  [risk_debate_state |->
            [history |-> history \o NL \o argument,
             risky_history |-> risky_history \o NL \o argument,
             safe_history |-> Get(risk_debate_state, "safe_history", Empty),
             neutral_history |-> Get(risk_debate_state, "neutral_history", Empty),
             latest_speaker |-> RiskyLatestSpeaker,
             current_risky_response |-> argument,
             current_safe_response |-> Get(risk_debate_state, "current_safe_response", Empty),
             current_neutral_response |-> Get(risk_debate_state, "current_neutral_response", Empty),
             count |-> risk_debate_state.count + 1]]

safe_node(s, response) ==
    LET risk_debate_state == s.risk_debate_state
        history == Get(risk_debate_state, "history", Empty)
        safe_history == Get(risk_debate_state, "safe_history", Empty)
        argument == Str("Safe Analyst: ") \o response.content
    IN  [risk_debate_state |->
            [history |-> history \o NL \o argument,
             risky_history |-> Get(risk_debate_state, "risky_history", Empty),
             safe_history |-> safe_history \o NL \o argument,
             neutral_history |-> Get(risk_debate_state, "neutral_history", Empty),
             latest_speaker |-> Str("Safe"),
             current_risky_response |-> Get(risk_debate_state, "current_risky_response", Empty),
             current_safe_response |-> argument,
             current_neutral_response |-> Get(risk_debate_state, "current_neutral_response", Empty),
             count |-> risk_debate_state.count + 1]]

neutral_node(s, response) ==
    LET risk_debate_state == s.risk_debate_state
        history == Get(risk_debate_state, "history", Empty)
        neutral_history == Get(risk_debate_state, "neutral_history", Empty)
        argument == Str("Neutral Analyst: ") \o response.content
    IN  [risk_debate_state |->
            [history |-> history \o NL \o argument,
             risky_history |-> Get(risk_debate_state, "risky_history", Empty),
             safe_history |-> Get(risk_debate_state, "safe_history", Empty),
             neutral_history |-> neutral_history \o NL \o argument,
             latest_speaker |-> Str("Neutral"),
             current_risky_response |-> Get(risk_debate_state, "current_risky_response", Empty),
             current_safe_response |-> Get(risk_debate_state, "current_safe_response", Empty),
             current_neutral_response |-> argument,
             count |-> risk_debate_state.count + 1]]

risk_manager_node(s, response) ==
    LET risk_debate_state == s.risk_debate_state
    IN  [risk_debate_state |->
            [judge_decision |-> response.content,
             history |-> Get(risk_debate_state, "history", Empty),
             risky_history |-> Get(risk_debate_state, "risky_history", Empty),
             safe_history |-> Get(risk_debate_state, "safe_history", Empty),
             neutral_history |-> Get(risk_debate_state, "neutral_history", Empty),
             latest_speaker |-> Get(risk_debate_state, "latest_speaker", Empty),
             current_risky_response |-> Get(risk_debate_state, "current_risky_response", Empty),
             current_safe_response |-> Get(risk_debate_state, "current_safe_response", Empty),
             current_neutral_response |-> Get(risk_debate_state, "current_neutral_response", Empty),
             count |-> risk_debate_state.count],
         final_trade_decision |-> response.content]

\* ------------------------------------------------------------------ signal

\* the replies the extraction model can give: a label, the decision in the
\* Chinese of its instruction ("mairu", buy), or nothing
SignalReplies == {Str("BUY"), Str("SELL"), Str("HOLD"), Str("mairu"), Empty}

\* process_signal returns the model's content as it is
process_signal(full_signal, response) == response.content

\* ------------------------------------------------------------------ routing

\* the node after analyst a: the next of the selected analysts, then the debate
NextAnalyst(a) ==
    LET i == CHOOSE k \in 1..Len(selected_analysts) : selected_analysts[k] = a
    IN  IF i < Len(selected_analysts) THEN selected_analysts[i + 1] ELSE "Bull Researcher"

\* after an analyst: its tools when the last message asks for any
should_continue_analyst(a, s) ==
    LET last_message == s.messages[Len(s.messages)]
    IN  IF Len(last_message.tool_calls) > 0 THEN ToolsNode(a) ELSE NextAnalyst(a)

\* after a bull or bear turn
should_continue_debate(s, max_debate) ==
    IF s.investment_debate_state.count >= 2 * max_debate
    THEN "Research Manager"
    ELSE IF StartsWith(s.investment_debate_state.current_response, Str("Bull Analyst: "))
    THEN "Bear Researcher"
    ELSE "Bull Researcher"

\* after a turn of the risk debate
should_continue_risk_analysis_late(s, max_risk) ==
    IF s.risk_debate_state.count > 3 * max_risk
    THEN "Risk Judge"
    ELSE IF StartsWith(s.risk_debate_state.latest_speaker, Str("Risky"))
    THEN "Safe Analyst"
    ELSE IF StartsWith(s.risk_debate_state.latest_speaker, Str("Safe"))
    THEN "Neutral Analyst"
    ELSE "Risky Analyst"

should_continue_risk_analysis(s, max_risk) ==
    IF s.risk_debate_state.count >= 3 * max_risk
    THEN "Risk Judge"
    ELSE IF StartsWith(s.risk_debate_state.latest_speaker, Str("Risky"))
    THEN "Safe Analyst"
    ELSE IF StartsWith(s.risk_debate_state.latest_speaker, Str("Safe"))
    THEN "Neutral Analyst"
    ELSE "Risky Analyst"

\* ------------------------------------------------------------------ dataflows

\* "data_dir": "./data", and a directory a caller configures instead
DataDirs == {"./data", "/srv/data"}

\* the ticker's news file in a directory: absent, holding news in the range
\* asked for, or holding none in that range
FileStates == {"absent", "in range", "none in range"}

\* interface.DATA_DIR before interface.py is imported
NotImported == "(not imported)"

\* initialize_config(), run when config.py is imported
initialize_config ==
    [config |-> [data_dir |-> "./data"], DATA_DIR |-> "./data"]

\* the package when the process starts: config.py imported, no data on disk
NoFiles == [d \in DataDirs |-> "absent"]
DefaultDataflows ==
    [config |-> initialize_config.config,
     DATA_DIR |-> initialize_config.DATA_DIR,
     interface_DATA_DIR |-> initialize_config.DATA_DIR,
     files |-> NoFiles]

\* set_config(config): _config.update(config); DATA_DIR = _config["data_dir"]
set_config(d, new) ==
    LET updated == [k \in (DOMAIN d.config) \cup (DOMAIN new) |->
                       IF k \in DOMAIN new THEN new[k] ELSE d.config[k]]
    IN  [d EXCEPT !.config = updated, !.DATA_DIR = updated.data_dir]

\* get_config()
get_config(d) == d.config

\* from .config import get_config, set_config, DATA_DIR: the name DATA_DIR of
\* interface.py is bound to the value config.DATA_DIR has at the import
import_interface(d) == [d EXCEPT !.interface_DATA_DIR = d.DATA_DIR]

\* get_data_in_range(ticker, start_date, end_date, data_type, data_dir): is
\* the result non-empty
get_data_in_range(files, data_dir) == files[data_dir] = "in range"

\* what the Finnhub API gives: no usable response, news in the range, news
\* outside of it only, or an empty list
ApiReplies == {"failed", "in range", "none in range", "empty"}

\* download_finnhub_data: on a response of status 200 writes the file under
\* get_config()["data_dir"] and returns the data by date, else returns {};
\* data: is the returned dict non-empty
download_finnhub_data(d, api) ==
    IF api = "failed" THEN [data |-> FALSE, files |-> d.files]
    ELSE [data |-> api # "empty",
          files |-> [d.files EXCEPT ![get_config(d).data_dir] =
                        IF api = "in range" THEN "in range" ELSE "none in range"]]

\* ------------------------------------------------------------------ the run

InitialState ==
    [messages |-> <<[type |-> "human", content |-> Str("ticker"), tool_calls |-> <<>>]>>,
     company_of_interest |-> Str("ticker"),
     trade_date |-> Str("date"),
     market_report |-> Empty,
     sentiment_report |-> Empty,
     news_report |-> Empty,
     fundamentals_report |-> Empty,
     investment_debate_state |->
        [history |-> Empty, bull_history |-> Empty, bear_history |-> Empty,
         current_response |-> Empty, count |-> 0],
     investment_plan |-> Empty,
     trader_investment_plan |-> Empty,
     risk_debate_state |->
        [history |-> Empty, risky_history |-> Empty, safe_history |-> Empty,
         neutral_history |-> Empty, latest_speaker |-> Empty,
         current_risky_response |-> Empty, current_safe_response |-> Empty,
         current_neutral_response |-> Empty, count |-> 0],
     final_trade_decision |-> Empty]

NoDecision == Str("(none)")

\* the records the stores can hold when a run starts: lessons of earlier runs,
\* the same number in every store
Lesson(i) ==
    [situation |-> Text(i) \o Str("\n\n") \o Str("\n\n") \o Str("\n\n"),
     recommendation |-> <<Tok("lesson", i)>>]
PriorMemories == {[r \in Roles |-> [i \in 1..n |-> Lesson(i)]] : n \in {0, PriorRecords}}

\* what a run starts from, but for the configuration and the memory
StartOfRun ==
    /\ state = InitialState
    /\ node = selected_analysts[1]
    /\ decision = NoDecision
    /\ error = NoError
    /\ calls = 0
    /\ toolRounds = 0
    /\ turns = <<>>
    /\ toolLog = {}
    /\ lessons = NoQuery
    /\ writes = <<>>

\* a run of a new process: the stores are empty
Init ==
    /\ max_debate_rounds \in 1..MaxRounds
    /\ max_risk_discuss_rounds \in 1..MaxRounds
    /\ selected_analysts = Analysts
    /\ memory = NoRecords
    /\ dataflows = DefaultDataflows
    /\ StartOfRun

\* an exception leaves the node and the run
Abort(at, what) ==
    /\ error' = [at |-> at, what |-> what]
    /\ node' = "ABORT"

\* an analyst node: one model invocation with the analyst's tools bound
AnalystStep(a, results) ==
    /\ node = a
    /\ calls' = calls + 1
    /\ \E result \in results :
          IF result.raised
          THEN /\ Abort(a, "model")
               /\ UNCHANGED <<state, writes>>
          ELSE LET patch == AnalystPatch(a, state, result)
                   merged == Apply(state, patch)
               IN  /\ state' = merged
                   /\ node' = should_continue_analyst(a, merged)
                   /\ writes' = writes \o ReportWrites(a, patch)
                   /\ UNCHANGED error
    /\ UNCHANGED <<config, decision, toolRounds, turns, toolLog, memory, lessons>>

AnalystNode(a) == AnalystStep(a, ToolModelResults)

\* the same node under a model that asks for a tool on every response
LoopingAnalystNode(a) ==
    /\ toolRounds < MaxLoopRounds
    /\ AnalystStep(a, LoopingModelResults)

\* the tools node of an analyst: runs the tool the last message asks for and
\* appends its result; a tool that raises either ends the run or, when the
\* tools node handles tool errors, gives the error's text as its result
ToolNode(a) ==
    /\ node = ToolsNode(a)
    /\ toolRounds' = toolRounds + 1
    /\ \E call \in ToolCalls(a) :
          /\ toolLog' = toolLog \cup {[by |-> a, tool |-> call.tool,
                                       failed |-> call.failed, result |-> call.result]}
          /\ IF call.result.raised
             THEN \E handled \in BOOLEAN :
                    IF handled
                    THEN /\ state' = Apply(state,
                               [messages |-> <<ToolMessage(Str("Error: ") \o call.result.value)>>])
                         /\ node' = a
                         /\ UNCHANGED error
                    ELSE /\ Abort(ToolsNode(a), "tool")
                         /\ UNCHANGED state
             ELSE /\ state' = Apply(state, [messages |-> <<ToolMessage(call.result.value)>>])
                  /\ node' = a
                  /\ UNCHANGED error
    /\ UNCHANGED <<config, decision, calls, turns, memory, lessons, writes>>

\* the nodes that invoke the model once, without tools, and return a patch
NodePatch(n, s, response) ==
    CASE n = "Bull Researcher" -> bull_node(s, response)
      [] n = "Bear Researcher" -> bear_node(s, response)
      [] n = "Research Manager" -> research_manager_node(s, response)
      [] n = "Trader" -> trader_node(s, response)
      [] n = "Risky Analyst" -> risky_node(s, response)
      [] n = "Safe Analyst" -> safe_node(s, response)
      [] n = "Neutral Analyst" -> neutral_node(s, response)
      [] n = "Risk Judge" -> risk_manager_node(s, response)

\* the edge that leaves node n, s the state after n's patch is merged
Route(n, s, max_debate, max_risk) ==
    CASE n \in Debaters -> should_continue_debate(s, max_debate)
      [] n = "Research Manager" -> "Trader"
      [] n = "Trader" -> "Risky Analyst"
      [] n \in RiskDebaters -> should_continue_risk_analysis(s, max_risk)
      [] n = "Risk Judge" -> "Signal"

TextNode(n) ==
    /\ node = n
    /\ lessons' = IF n \in Recallers
                  THEN Recall(n, memory[MemoryOf(n)], curr_situation(state), n_matches)
                  ELSE lessons
    /\ memory' = IF n \in Recallers
                 THEN [memory EXCEPT ![MemoryOf(n)] =
                          StoreAfterRecall(memory[MemoryOf(n)], curr_situation(state), n_matches)]
                 ELSE memory
    /\ calls' = calls + 1
    /\ \E response \in TextModelResults :
          IF response.raised
          THEN /\ Abort(n, "model")
               /\ UNCHANGED <<state, turns, writes>>
          ELSE LET patch == NodePatch(n, state, response)
                   merged == Apply(state, patch)
               IN  /\ state' = merged
                   /\ node' = Route(n, merged, max_debate_rounds, max_risk_discuss_rounds)
                   /\ turns' = IF n \in Debaters \cup RiskDebaters
                               THEN Append(turns, n) ELSE turns
                   /\ writes' = writes \o ReportWrites(n, patch)
                   /\ UNCHANGED error
    /\ UNCHANGED <<config, decision, toolRounds, toolLog>>

BullResearcher == TextNode("Bull Researcher")
BearResearcher == TextNode("Bear Researcher")
ResearchManager == TextNode("Research Manager")
Trader == TextNode("Trader")
RiskyAnalyst == TextNode("Risky Analyst")
SafeAnalyst == TextNode("Safe Analyst")
NeutralAnalyst == TextNode("Neutral Analyst")
RiskJudge == TextNode("Risk Judge")

\* propagate: after the graph ends, the decision is process_signal of the
\* final state's final_trade_decision
Signal ==
    /\ node = "Signal"
    /\ calls' = calls + 1
    /\ \E response \in {ModelRaises} \cup {ModelSays(r) : r \in SignalReplies} :
          IF response.raised
          THEN /\ Abort("Signal", "model")
               /\ UNCHANGED decision
          ELSE /\ decision' = process_signal(state.final_trade_decision, response)
               /\ node' = "END"
               /\ UNCHANGED error
    /\ UNCHANGED <<config, state, toolRounds, turns, toolLog, memory, lessons, writes>>

\* the roles in the order reflect_and_remember reflects on them
ReflectOrder == <<"bull", "bear", "trader", "invest_judge", "risk_manager">>

\* the memory after the first n roles reflected on current_state, the model's
\* reply to the i-th being Text(first + i)
RECURSIVE Reflected(_, _, _, _, _)
Reflected(mem, current_state, returns_losses, first, n) ==
    IF n = 0 THEN mem
    ELSE LET before == Reflected(mem, current_state, returns_losses, first, n - 1)
             role == ReflectOrder[n]
         IN  [before EXCEPT ![role] =
                 ReflectOn(role, current_state, returns_losses, before[role],
                           ModelSays(Text(first + n)))]

\* reflect_and_remember(returns_losses), called after propagate returned: one
\* reflection per role on the final state; a model call that raises ends it
ReflectAndRemember ==
    /\ node = "END"
    /\ \E returns_losses \in Returns, done \in 0..Len(ReflectOrder), raised \in BOOLEAN :
          /\ raised <=> done < Len(ReflectOrder)
          /\ memory' = Reflected(memory, state, returns_losses, calls, done)
          /\ IF raised
             THEN /\ calls' = calls + done + 1
                  /\ Abort("Reflector", "model")
             ELSE /\ calls' = calls + done
                  /\ node' = "REFLECTED"
                  /\ UNCHANGED error
    /\ UNCHANGED <<config, state, decision, toolRounds, turns, toolLog, lessons, writes>>

Next ==
    \/ \E a \in AnalystNodes : AnalystNode(a)
    \/ \E a \in AnalystNodes : ToolNode(a)
    \/ BullResearcher
    \/ BearResearcher
    \/ ResearchManager
    \/ Trader
    \/ RiskyAnalyst
    \/ SafeAnalyst
    \/ NeutralAnalyst
    \/ RiskJudge
    \/ Signal

Spec == Init /\ [][Next]_vars

\* ------------------------------------------------------------------ a run and its reflection

\* a run under the default configuration, of a process whose stores may hold
\* the lessons of earlier runs, followed by reflect_and_remember
RememberInit ==
    /\ max_debate_rounds = 1
    /\ max_risk_discuss_rounds = 1
    /\ selected_analysts = Analysts
    /\ memory \in PriorMemories
    /\ dataflows = DefaultDataflows
    /\ StartOfRun

RememberNext == Next \/ ReflectAndRemember

RememberSpec == RememberInit /\ [][RememberNext]_vars

\* ------------------------------------------------------------------ the analysts in any order

Orders ==
    {order \in [1..Len(Analysts) -> AnalystNodes] :
        \A i, j \in 1..Len(Analysts) : order[i] = order[j] => i = j}

AnyOrderInit ==
    /\ max_debate_rounds = 1
    /\ max_risk_discuss_rounds = 1
    /\ selected_analysts \in Orders
    /\ memory = NoRecords
    /\ dataflows = DefaultDataflows
    /\ StartOfRun

AnyOrderNext ==
    \/ \E a \in AnalystNodes : AnalystNode(a)
    \/ \E a \in AnalystNodes : ToolNode(a)

AnyOrderSpec == AnyOrderInit /\ [][AnyOrderNext]_vars

\* ------------------------------------------------------------------ the analysts in any order, then the debate

AnyOrderDebateNext ==
    \/ \E a \in AnalystNodes : AnalystNode(a)
    \/ \E a \in AnalystNodes : ToolNode(a)
    \/ BullResearcher
    \/ BearResearcher

AnyOrderDebateSpec == AnyOrderInit /\ [][AnyOrderDebateNext]_vars

\* ------------------------------------------------------------------ a model that always asks for a tool

ToolLoopNext ==
    \/ \E a \in AnalystNodes : LoopingAnalystNode(a)
    \/ \E a \in AnalystNodes : ToolNode(a)

ToolLoopSpec == Init /\ [][ToolLoopNext]_vars

\* ------------------------------------------------------------------ the signal extracted again

\* process_signal called once more on the final_trade_decision of the run
\* that ended: one more invocation of the model, whose reply is returned
ProcessSignalAgain ==
    /\ node = "END"
    /\ calls < MaxCalls
    /\ calls' = calls + 1
    /\ \E response \in {ModelRaises} \cup {ModelSays(r) : r \in SignalReplies} :
          IF response.raised
          THEN /\ Abort("Signal", "model")
               /\ UNCHANGED decision
          ELSE /\ decision' = process_signal(state.final_trade_decision, response)
               /\ UNCHANGED <<node, error>>
    /\ UNCHANGED <<config, state, toolRounds, turns, toolLog, memory, lessons, writes>>

\* a run of a new process under the default configuration
ExtractInit ==
    /\ max_debate_rounds = 1
    /\ max_risk_discuss_rounds = 1
    /\ selected_analysts = Analysts
    /\ memory = NoRecords
    /\ dataflows = DefaultDataflows
    /\ StartOfRun

ExtractNext == Next \/ ProcessSignalAgain

ExtractSpec == ExtractInit /\ [][ExtractNext]_vars

\* ------------------------------------------------------------------ the data directory

\* a process before interface.py is imported, with whatever is on disk
DataDirInit ==
    /\ max_debate_rounds = 1
    /\ max_risk_discuss_rounds = 1
    /\ selected_analysts = Analysts
    /\ memory = NoRecords
    /\ dataflows \in {[DefaultDataflows EXCEPT !.interface_DATA_DIR = NotImported,
                                                !.files = files] :
                          files \in [DataDirs -> FileStates]}
    /\ StartOfRun

\* the first import of interface.py
ImportInterface ==
    /\ dataflows.interface_DATA_DIR = NotImported
    /\ dataflows' = import_interface(dataflows)
    /\ UNCHANGED <<max_debate_rounds, max_risk_discuss_rounds, selected_analysts, state,
                   node, decision, error, calls, toolRounds, turns, toolLog, memory,
                   lessons, writes>>

\* a call of set_config, with or without a data_dir
SetConfig ==
    /\ \E new \in {[data_dir |-> dir] : dir \in DataDirs} \cup {[use_proxy |-> FALSE]} :
          dataflows' = set_config(dataflows, new)
    /\ UNCHANGED <<max_debate_rounds, max_risk_discuss_rounds, selected_analysts, state,
                   node, decision, error, calls, toolRounds, turns, toolLog, memory,
                   lessons, writes>>

\* a call of get_finnhub_news on the files: reads under interface.DATA_DIR,
\* downloads when nothing is found, reads again when the download gave data
GetFinnhubNews ==
    /\ dataflows.interface_DATA_DIR # NotImported
    /\ \E api \in ApiReplies :
          LET local == get_data_in_range(dataflows.files, dataflows.interface_DATA_DIR)
              downloaded_data == download_finnhub_data(dataflows, api)
              files == IF local THEN dataflows.files ELSE downloaded_data.files
              reread == get_data_in_range(files, dataflows.interface_DATA_DIR)
          IN  /\ dataflows' = [dataflows EXCEPT !.files = files]
              /\ toolLog' = toolLog \cup
                    {[by |-> "News Analyst", tool |-> "get_finnhub_news",
                      failed |-> ~local /\ ~(downloaded_data.data /\ reread),
                      result |-> get_finnhub_news(local, downloaded_data.data, reread),
                      local |-> local, api |-> api]}
    /\ UNCHANGED <<max_debate_rounds, max_risk_discuss_rounds, selected_analysts, state,
                   node, decision, error, calls, toolRounds, turns, memory, lessons, writes>>

DataDirNext ==
    \/ ImportInterface
    \/ SetConfig
    \/ GetFinnhubNews

DataDirSpec == DataDirInit /\ [][DataDirNext]_vars

\* ------------------------------------------------------------------ the stores alone

\* the final state of a run whose market and news reports are as given
FinishedRun(market_report, news_report) ==
    LET s0 == [InitialState EXCEPT !.market_report = market_report,
                                   !.news_report = news_report]
        s1 == Apply(s0, bull_node(s0, ModelSays(Text(5))))
        s2 == Apply(s1, bear_node(s1, ModelSays(Text(6))))
        s3 == Apply(s2, research_manager_node(s2, ModelSays(Text(7))))
        s4 == Apply(s3, trader_node(s3, ModelSays(Text(8))))
        s5 == Apply(s4, risky_node(s4, ModelSays(Text(9))))
        s6 == Apply(s5, safe_node(s5, ModelSays(Text(10))))
        s7 == Apply(s6, neutral_node(s6, ModelSays(Text(11))))
    IN  Apply(s7, risk_manager_node(s7, ModelSays(Text(12))))

FinishedRuns == {FinishedRun(m, Text(3)) : m \in {Empty, Text(1)}}

TotalRecords ==
    Len(memory["bull"]) + Len(memory["bear"]) + Len(memory["trader"])
        + Len(memory["invest_judge"]) + Len(memory["risk_manager"])

\* a process whose last run has finished, its stores still empty
StoreInit ==
    /\ max_debate_rounds = 1
    /\ max_risk_discuss_rounds = 1
    /\ selected_analysts = Analysts
    /\ memory = NoRecords
    /\ dataflows = DefaultDataflows
    /\ state \in FinishedRuns
    /\ node = "END"
    /\ decision = Str("BUY")
    /\ error = NoError
    /\ calls = 13
    /\ toolRounds = 0
    /\ turns = <<"Bull Researcher", "Bear Researcher",
                 "Risky Analyst", "Safe Analyst", "Neutral Analyst">>
    /\ toolLog = {}
    /\ lessons = NoQuery
    /\ writes = [i \in 1..Len(Analysts) |->
                    [by |-> Analysts[i], key |-> ReportField(Analysts[i]),
                     value |-> state[ReportField(Analysts[i])]]]

\* one of the Reflector's methods, called for the last run's final state
Reflect(role) ==
    /\ node = "END"
    /\ TotalRecords < MaxRecords
    /\ calls' = calls + 1
    /\ \E returns_losses \in Returns, response \in TextModelResults :
          IF response.raised
          THEN /\ Abort("Reflector", "model")
               /\ UNCHANGED memory
          ELSE /\ memory' = [memory EXCEPT ![role] =
                                ReflectOn(role, state, returns_losses, memory[role], response)]
               /\ UNCHANGED <<node, error>>
    /\ UNCHANGED <<config, state, decision, toolRounds, turns, toolLog, lessons, writes>>

ReflectBullResearcher == Reflect("bull")
ReflectBearResearcher == Reflect("bear")
ReflectTrader == Reflect("trader")
ReflectInvestJudge == Reflect("invest_judge")
ReflectRiskManager == Reflect("risk_manager")

\* memory.get_memories on a role's store
Query(role) ==
    /\ node = "END"
    /\ \E matches \in 0..MaxMatches :
          /\ lessons' = Recall(role, memory[role], curr_situation(state), matches)
          /\ memory' = [memory EXCEPT ![role] =
                           StoreAfterRecall(memory[role], curr_situation(state), matches)]
    /\ UNCHANGED <<config, state, node, decision, error, calls, toolRounds, turns,
                   toolLog, writes>>

\* another run finishes: propagate returns another final state
Propagate ==
    /\ node = "END"
    /\ \E final_state \in FinishedRuns \ {state} :
          /\ state' = final_state
          /\ writes' = [i \in 1..Len(Analysts) |->
                           [by |-> Analysts[i], key |-> ReportField(Analysts[i]),
                            value |-> final_state[ReportField(Analysts[i])]]]
    /\ UNCHANGED <<config, node, decision, error, calls, toolRounds, turns, toolLog,
                   memory, lessons>>

StoreNext ==
    \/ ReflectBullResearcher
    \/ ReflectBearResearcher
    \/ ReflectTrader
    \/ ReflectInvestJudge
    \/ ReflectRiskManager
    \/ \E role \in Roles : Query(role)
    \/ Propagate

StoreSpec == StoreInit /\ [][StoreNext]_vars

\* ------------------------------------------------------------------ properties

\* the turns of the investment debate and of the risk debate, in order
IsDebater(n) == n \in Debaters
IsRiskDebater(n) == n \in RiskDebaters
InvestTurns == SelectSeq(turns, IsDebater)
RiskTurns == SelectSeq(turns, IsRiskDebater)

\* the speaker labels in a transcript, in order
IsInvestLabel(t) == t.k \in {"Bull Analyst: ", "Bear Analyst: "}
LabelsOf(text) ==
    LET labelled == SelectSeq(text, IsInvestLabel)
    IN  [i \in 1..Len(labelled) |-> labelled[i].k]

round_count == state.investment_debate_state.count
risk_round_count == state.risk_debate_state.count

\* the run has stopped: the graph ended and the signal was extracted, or an
\* exception left it
RunOver == node \in {"END", "ABORT"}

\* C1: the investment debate's count never decreases, and no bull or bear
\* turn is executed in a state where count >= 2 * max_debate_rounds.
C1_RoundCountMonotoneAndBounded ==
    [][/\ state'.investment_debate_state.count >= state.investment_debate_state.count
       /\ (node \in Debaters => round_count < 2 * max_debate_rounds)]_vars

\* the debate ran to its last turn under the largest configuration
C1_Witness ==
    /\ max_debate_rounds = MaxRounds
    /\ node = "Research Manager"
    /\ round_count = 2 * max_debate_rounds
    /\ Len(InvestTurns) = 2 * MaxRounds

\* C2: the debaters alternate strictly, bull first; when the research manager
\* runs exactly 2 * max_debate_rounds turns were taken and the shared
\* transcript holds their labelled entries in that order (with
\* max_debate_rounds = 1: one bull entry, then one bear entry).
AlternatingNodes(n) ==
    [i \in 1..n |-> IF i % 2 = 1 THEN "Bull Researcher" ELSE "Bear Researcher"]
AlternatingLabels(n) ==
    [i \in 1..n |-> IF i % 2 = 1 THEN "Bull Analyst: " ELSE "Bear Analyst: "]
DebateOver ==
    LET after == {"Research Manager", "Trader", "Risk Judge", "Signal", "END"} \cup RiskDebaters
    IN  node \in after \/ (node = "ABORT" /\ error.at \in after)

C2_TurnsAlternate ==
    /\ InvestTurns = AlternatingNodes(Len(InvestTurns))
    /\ DebateOver =>
          /\ Len(InvestTurns) = 2 * max_debate_rounds
          /\ LabelsOf(state.investment_debate_state.history)
                = AlternatingLabels(2 * max_debate_rounds)
    /\ (DebateOver /\ max_debate_rounds = 1) =>
          LabelsOf(state.investment_debate_state.history)
                = <<"Bull Analyst: ", "Bear Analyst: ">>

C2_Witness ==
    /\ node = "Research Manager"
    /\ max_debate_rounds = 1
    /\ \A f \in ReportFields : state[f] # Empty
    /\ InvestTurns = <<"Bull Researcher", "Bear Researcher">>

\* C3: count of the investment debate equals the number of bull and bear
\* turns taken so far, in every state of a run.
C3_RoundCountIsTurns == round_count = Len(InvestTurns)

\* the research manager has run after a four-turn debate
C3_Witness ==
    /\ node = "Trader"
    /\ Len(InvestTurns) = 4
    /\ state.investment_plan # Empty

\* C4: the risk debate's turns follow the cycle aggressive, conservative,
\* neutral; when the risk judge runs 3 * max_risk_discuss_rounds turns were
\* taken; latest_speaker names the persona that spoke last.
RiskCycle == <<"Risky Analyst", "Safe Analyst", "Neutral Analyst">>
SpeakerName(n) ==
    CASE n = "Risky Analyst" -> Str("Risky")
      [] n = "Safe Analyst" -> Str("Safe")
      [] n = "Neutral Analyst" -> Str("Neutral")

C4_RiskOrderFixed ==
    /\ \A i \in 1..Len(RiskTurns) : RiskTurns[i] = RiskCycle[((i - 1) % 3) + 1]
    /\ Len(RiskTurns) > 0 =>
          state.risk_debate_state.latest_speaker = SpeakerName(RiskTurns[Len(RiskTurns)])
    /\ node = "Risk Judge" => Len(RiskTurns) = 3 * max_risk_discuss_rounds
    /\ (node = "Risk Judge" /\ max_risk_discuss_rounds = 1) => RiskTurns = RiskCycle

C4_Witness ==
    /\ node = "Risk Judge"
    /\ max_risk_discuss_rounds = 2
    /\ RiskTurns = RiskCycle \o RiskCycle
    /\ state.risk_debate_state.latest_speaker = Str("Neutral")

\* C5: once the risk debate's count >= 3 * max_risk_discuss_rounds no persona
\* takes a turn: the risk stage's next node is the risk judge, and its step
\* adds no turn and, unless the model raises, writes final_trade_decision.
C5_RiskDebateTerminates ==
    [][(node \in RiskDebaters \cup {"Risk Judge"}
          /\ risk_round_count >= 3 * max_risk_discuss_rounds)
        => /\ node = "Risk Judge"
           /\ turns' = turns
           /\ error' = NoError =>
                 /\ node' = "Signal"
                 /\ state'.final_trade_decision = Text(calls')
                 /\ state.final_trade_decision = Empty]_vars

C5_Witness ==
    /\ node = "Signal"
    /\ risk_round_count = 3 * max_risk_discuss_rounds
    /\ state.final_trade_decision # Empty

\* C6: the signal extractor returns exactly one of BUY, SELL, HOLD, whatever
\* the model replies (HOLD when the reply is no label).
ActionLabels == {Str("BUY"), Str("SELL"), Str("HOLD")}

C6_SignalIsLabel == node = "END" => decision \in ActionLabels

\* C7: every run ends at the final stage with final_trade_decision and the
\* action set, whatever tool and model failures occur: no run stops part-way.
C7_RunAlwaysCompletes ==
    RunOver =>
        /\ node = "END"
        /\ error = NoError
        /\ state.final_trade_decision # Empty
        /\ decision # NoDecision

\* C8: a model call that raises inside an analyst node does not leave the
\* node: no exception of an analyst's model call ends the run.
C8_AnalystContainsModelFailure ==
    ~(error.what = "model" /\ error.at \in AnalystNodes)

\* C9: when a tool failed during the market analyst's tool loop, the run that
\* reaches its end has a non-empty market_report and an action.
MarketToolFailed == \E c \in toolLog : c.by = "Market Analyst" /\ c.failed

C9_MarketReportPlaceholder ==
    (node = "END" /\ MarketToolFailed) =>
        /\ state.market_report # Empty
        /\ decision # NoDecision

\* C10: every tool call made in a failure mode returns a non-empty string,
\* and no tool call raises.
C10_ToolsReturnText ==
    \A c \in toolLog :
        /\ ~c.result.raised
        /\ c.failed => c.result.value # Empty

\* ------------------------------------------------------------------ properties of the analysts

IsPrefix(s, t) == Len(s) <= Len(t) /\ SubSeq(t, 1, Len(s)) = s
LastMessage(s) == s.messages[Len(s.messages)]

\* the writes of one report key, in order
WritesOf(key) ==
    LET OfKey(w) == w.key = key
    IN  SelectSeq(writes, OfKey)

\* C11: each analyst's patch holds only its own report key beside the
\* appended message, so in whatever order the four analysts run, the merged
\* state holds the four reports, each as its own analyst wrote it last, and
\* nothing else of the state is touched.
C11_AnalystPatchesDisjoint ==
    /\ \A i \in 1..Len(writes) : writes[i].key = ReportField(writes[i].by)
    /\ DOMAIN state = DOMAIN InitialState
    /\ \A k \in DOMAIN state \ ({"messages"} \cup ReportFields) : state[k] = InitialState[k]
    /\ node = "Bull Researcher" =>
          \A a \in AnalystNodes :
              LET mine == WritesOf(ReportField(a))
              IN  /\ Len(mine) >= 1
                  /\ state[ReportField(a)] = mine[Len(mine)].value

\* the four analysts ran in the reverse of the usual order and each reported
C11_Witness ==
    /\ node = "Bull Researcher"
    /\ selected_analysts = <<"Fundamentals Analyst", "News Analyst",
                             "Social Analyst", "Market Analyst">>
    /\ \A f \in ReportFields : state[f] # Empty
    /\ \A f, g \in ReportFields : state[f] = state[g] => f = g

\* C12: for every response of an analyst's model: without tool calls the
\* node's report field is the response's text and the next analyst follows;
\* with tool calls the report is empty, the response is the last message and
\* the analyst's tools run, after which the same analyst is invoked again.
C12_ReportOrToolCall ==
    [][\A a \in AnalystNodes :
          /\ (node = a /\ error' = NoError) =>
                LET result == LastMessage(state')
                IN  /\ result.type = "ai"
                    /\ Len(result.tool_calls) = 0 =>
                          /\ state'[ReportField(a)] = result.content
                          /\ node' = NextAnalyst(a)
                    /\ Len(result.tool_calls) > 0 =>
                          /\ state'[ReportField(a)] = Empty
                          /\ node' = ToolsNode(a)
          /\ (node = ToolsNode(a) /\ error' = NoError) =>
                /\ LastMessage(state').type = "tool"
                /\ node' = a]_vars

\* the market analyst asked for a tool in a response that had text, was
\* invoked again and reported
C12_Witness ==
    /\ node = "Social Analyst"
    /\ toolRounds = 1
    /\ state.market_report # Empty
    /\ \E i \in 1..Len(state.messages) :
          /\ Len(state.messages[i].tool_calls) > 0
          /\ state.messages[i].content # Empty

\* C13: each report key is written exactly once in a run, by its own analyst,
\* and is empty until then: no patch of a later invocation, the same
\* analyst's after a tool round included, holds the key again.
AnalystStageOver ==
    node \notin AnalystNodes \cup {ToolsNode(a) : a \in AnalystNodes} \cup {"ABORT"}

C13_ReportWrittenOnce ==
    \A key \in ReportFields :
        /\ Len(WritesOf(key)) <= 1
        /\ \A i \in 1..Len(writes) : writes[i].key = ReportField(writes[i].by)
        /\ Len(WritesOf(key)) = 0 => state[key] = Empty
        /\ AnalystStageOver => Len(WritesOf(key)) = 1

\* C14: the conversation only grows: every step leaves the messages it found
\* as a prefix of the messages it leaves, an analyst's invocation appends
\* exactly one message, the model's, and a tool execution one tool message.
C14_MessagesAppendOnly ==
    [][/\ IsPrefix(state.messages, state'.messages)
       /\ (node \in AnalystNodes /\ error' = NoError) =>
             /\ Len(state'.messages) = Len(state.messages) + 1
             /\ LastMessage(state').type = "ai"
       /\ (node \in {ToolsNode(a) : a \in AnalystNodes} /\ error' = NoError) =>
             /\ Len(state'.messages) = Len(state.messages) + 1
             /\ LastMessage(state').type = "tool"
       /\ node \notin AnalystNodes \cup {ToolsNode(a) : a \in AnalystNodes} =>
             state'.messages = state.messages]_vars

\* the four analysts are done, one of them after a tool round
C14_Witness ==
    /\ node = "Bull Researcher"
    /\ Len(state.messages) = 1 + Len(Analysts) + 2
    /\ \E i \in 1..Len(state.messages) : state.messages[i].type = "tool"

\* C15: an analyst's tool loop is cut by a cap on its tool rounds: under a
\* model that asks for a tool on every response, some cap below the rounds
\* followed here is never exceeded, and the analyst whose response asks for
\* a tool at the cap is not sent to its tools again: the run goes on to the
\* next node with a non-empty placeholder as the analyst's report.
ToolRoundCaps == 1..(MaxLoopRounds - 1)

C15_ToolLoopCapped ==
    \E cap \in ToolRoundCaps :
        /\ toolRounds <= cap
        /\ (toolRounds = cap /\ error = NoError /\ Len(LastMessage(state).tool_calls) > 0) =>
              LET a == writes[Len(writes)].by
              IN  /\ node = NextAnalyst(a)
                  /\ state[ReportField(a)] # Empty

\* ------------------------------------------------------------------ properties of the memory

\* C16: a query of a store for k matches gives at most min(k, records
\* stored) records, and none, without an error, when the store is empty.
C16_QueryAtMostK ==
    /\ Len(lessons.past_memories) <= Min(lessons.n_matches, lessons.stored)
    /\ lessons.stored = 0 => lessons.past_memories = <<>>

\* a store holding more records than asked for was queried
C16_Witness ==
    /\ lessons.n_matches > 0
    /\ lessons.stored > lessons.n_matches
    /\ Len(lessons.past_memories) = lessons.n_matches

\* C17: a store is an append-only log: whatever is done (a reflection, which
\* adds, a query, another run), every store keeps the records it had,
\* unchanged and in their positions, and so never shrinks.
C17_StoreAppendOnly ==
    [][\A r \in Roles : IsPrefix(memory[r], memory'[r])]_vars

\* a store received a second record after it was queried
C17_Witness ==
    /\ Len(memory["bull"]) = 2
    /\ lessons.by = "bull"
    /\ lessons.stored = 1

\* C18: a reflection for one role, when its one model call returns, appends
\* exactly one record, the situation with the model's critique, to that
\* role's store and leaves the stores of the other four roles as they were.
C18_ReflectOneStore ==
    [][\A role \in Roles :
          (Reflect(role) /\ error' = error) =>
              /\ calls' = calls + 1
              /\ memory'[role] =
                    Append(memory[role],
                           [situation |-> extract_current_situation(state),
                            recommendation |-> Text(calls')])
              /\ \A other \in Roles \ {role} : memory'[other] = memory[other]]_vars

\* two roles reflected, the others did not
C18_Witness ==
    /\ Len(memory["bear"]) = 1
    /\ Len(memory["risk_manager"]) = 1
    /\ \A r \in Roles \ {"bear", "risk_manager"} : memory[r] = <<>>

\* C19: no store is written before the run's action is produced: the nodes
\* of the debate only query, what they read is in the store as the run found
\* it, and the stores change only by the reflection after the run ended.
C19_MemoryWrittenAfterRun ==
    [][/\ memory' # memory => (node = "END" /\ decision # NoDecision)
       /\ node \in Recallers =>
             /\ memory' = memory
             /\ \A i \in 1..Len(lessons'.past_memories) :
                   \E j \in 1..Len(memory[MemoryOf(node)]) :
                       /\ memory[MemoryOf(node)][j].situation
                             = lessons'.past_memories[i].matched_situation
                       /\ memory[MemoryOf(node)][j].recommendation
                             = lessons'.past_memories[i].recommendation
       /\ lessons' # lessons => node \in Recallers]_vars

\* a run that read earlier lessons has ended and was reflected on
C19_Witness ==
    /\ node = "REFLECTED"
    /\ lessons.by = "Research Manager"
    /\ lessons.past_memory_str # Empty
    /\ \A r \in Roles : Len(memory[r]) = PriorRecords + 1

\* C20: with every store empty, the lessons text a bull, bear or research
\* manager turn builds is the empty string, and the turn is taken: unless the
\* model call itself raises, the node's patch is merged and the run goes on.
AllStoresEmpty == \A r \in Roles : memory[r] = <<>>

C20_EmptyMemoryEmptyLessons ==
    [][(node \in Recallers /\ AllStoresEmpty) =>
          /\ lessons'.by = node
          /\ lessons'.past_memories = <<>>
          /\ lessons'.past_memory_str = Empty
          /\ error' # NoError => error' = [at |-> node, what |-> "model"]
          /\ error' = NoError =>
                /\ state' = Apply(state, NodePatch(node, state, ModelSays(Text(calls'))))
                /\ node' \notin {node, "ABORT"}]_vars

\* bull, bear and research manager took their turns on empty stores
C20_Witness ==
    /\ node = "Trader"
    /\ AllStoresEmpty
    /\ lessons.by = "Research Manager"
    /\ lessons.past_memory_str = Empty
    /\ InvestTurns = <<"Bull Researcher", "Bear Researcher">>
    /\ state.investment_plan # Empty

\* ------------------------------------------------------------------ properties of the stages

\* the messages of the conversation: the analysts' terminal replies, their
\* requests for a tool, and the tools' results
TerminalReplies ==
    {i \in 1..Len(state.messages) :
        state.messages[i].type = "ai" /\ Len(state.messages[i].tool_calls) = 0}
ToolRequests ==
    {i \in 1..Len(state.messages) :
        state.messages[i].type = "ai" /\ Len(state.messages[i].tool_calls) > 0}
ToolResults == {i \in 1..Len(state.messages) : state.messages[i].type = "tool"}

\* every analyst gave its terminal reply, every tool round it asked for was
\* run, and the state holds each report as its analyst's last patch gave it
AllAnalystsReported ==
    /\ Cardinality(TerminalReplies) = Len(Analysts)
    /\ Cardinality(ToolRequests) = Cardinality(ToolResults)
    /\ \A a \in AnalystNodes :
          LET mine == WritesOf(ReportField(a))
          IN  /\ Len(mine) >= 1
              /\ mine[Len(mine)].by = a
              /\ state[ReportField(a)] = mine[Len(mine)].value

Stages == <<"Analysts", "InvestmentDebate", "InvestmentSynthesis", "RiskDebate",
            "RiskSynthesis", "SignalExtraction", "Done">>
StageOf(n) ==
    CASE n \in AnalystNodes \cup {ToolsNode(a) : a \in AnalystNodes} -> 1
      [] n \in Debaters -> 2
      [] n \in {"Research Manager", "Trader"} -> 3
      [] n \in RiskDebaters -> 4
      [] n = "Risk Judge" -> 5
      [] n = "Signal" -> 6
      [] n = "END" -> 7

\* C22: a run goes through the stages Analysts, InvestmentDebate,
\* InvestmentSynthesis, RiskDebate, RiskSynthesis, SignalExtraction, Done in
\* that order: a step stays in its stage or enters the next one, never an
\* earlier or a later one; investment_plan is written by the synthesis of
\* the investment debate and is there before any turn of the risk debate,
\* final_trade_decision is written only once the risk debate is over, and
\* the action only from a final_trade_decision that was written.
C22_StagesInOrder ==
    [][/\ node' # "ABORT" =>
             StageOf(node') \in {StageOf(node), StageOf(node) + 1}
       /\ state'.investment_plan # state.investment_plan =>
             Stages[StageOf(node)] = "InvestmentSynthesis"
       /\ Stages[StageOf(node)] = "RiskDebate" =>
             /\ state.investment_plan # Empty
             /\ state.trader_investment_plan # Empty
             /\ state.final_trade_decision = Empty
       /\ state'.final_trade_decision # state.final_trade_decision =>
             /\ Stages[StageOf(node)] = "RiskSynthesis"
             /\ risk_round_count >= 3 * max_risk_discuss_rounds
       /\ decision' # decision =>
             /\ Stages[StageOf(node)] = "SignalExtraction"
             /\ state.final_trade_decision # Empty
             /\ Stages[StageOf(node')] = "Done"
       /\ node' = "END" => decision' # NoDecision]_vars

\* a run went through every stage, with two rounds of each debate
C22_Witness ==
    /\ node = "END"
    /\ decision \in ActionLabels
    /\ Len(InvestTurns) = 4
    /\ Len(RiskTurns) = 6
    /\ state.final_trade_decision # Empty

\* ------------------------------------------------------------------ properties of the debates

\* the field of the risk debate that holds a persona's latest argument, and
\* the label of the persona's arguments
LatestField(n) ==
    CASE n = "Risky Analyst" -> "current_risky_response"
      [] n = "Safe Analyst" -> "current_safe_response"
      [] n = "Neutral Analyst" -> "current_neutral_response"
RiskLabel(n) ==
    CASE n = "Risky Analyst" -> Str("Risky Analyst: ")
      [] n = "Safe Analyst" -> Str("Safe Analyst: ")
      [] n = "Neutral Analyst" -> Str("Neutral Analyst: ")

HasSpoken(n) == \E i \in 1..Len(turns) : turns[i] = n

UnheardAreEmpty ==
    \A p \in RiskDebaters : ~HasSpoken(p) => state.risk_debate_state[LatestField(p)] = Empty

\* C23: in the risk debate the field of a persona's latest argument is empty
\* until that persona took a turn, and a persona's turn sets its own field to
\* its labelled argument and leaves the fields of the other two as they were.
C23_LatestArgumentsOwn ==
    [][/\ UnheardAreEmpty
       /\ UnheardAreEmpty'
       /\ (node \in RiskDebaters /\ error' = NoError) =>
             /\ state'.risk_debate_state[LatestField(node)] = RiskLabel(node) \o Text(calls')
             /\ \A p \in RiskDebaters \ {node} :
                   state'.risk_debate_state[LatestField(p)]
                      = state.risk_debate_state[LatestField(p)]]_vars

\* the aggressive persona spoke, the other two did not yet
C23_Witness ==
    /\ node = "Safe Analyst"
    /\ RiskTurns = <<"Risky Analyst">>
    /\ state.risk_debate_state.current_risky_response # Empty
    /\ state.risk_debate_state.current_safe_response = Empty
    /\ state.risk_debate_state.current_neutral_response = Empty

\* the label of a side's arguments, its own transcript and the other side
InvestLabel(n) ==
    IF n = "Bull Researcher" THEN Str("Bull Analyst: ") ELSE Str("Bear Analyst: ")
OwnHistory(n) == IF n = "Bull Researcher" THEN "bull_history" ELSE "bear_history"
Opposite(n) == IF n = "Bull Researcher" THEN "Bear Researcher" ELSE "Bull Researcher"

\* C24: a turn of the investment debate by one side appends that side's
\* labelled argument (after a newline) to the shared transcript and to the
\* side's own transcript, sets current_response to the labelled argument and
\* leaves the other side's transcript as it was.
C24_TurnAppendsOwnArgument ==
    [][(node \in Debaters /\ error' = NoError) =>
          LET before == state.investment_debate_state
              after == state'.investment_debate_state
              argument == InvestLabel(node) \o Text(calls')
          IN  /\ after.history = before.history \o NL \o argument
              /\ after[OwnHistory(node)] = before[OwnHistory(node)] \o NL \o argument
              /\ after.current_response = argument
              /\ after[OwnHistory(Opposite(node))] = before[OwnHistory(Opposite(node))]]_vars

\* the bear answered the bull's first argument
C24_Witness ==
    /\ max_debate_rounds = 2
    /\ node = "Bull Researcher"
    /\ InvestTurns = <<"Bull Researcher", "Bear Researcher">>
    /\ state.investment_debate_state.bull_history # Empty
    /\ state.investment_debate_state.bear_history # Empty

\* text.split("\n")
RECURSIVE SplitLines(_)
SplitLines(text) ==
    IF text = <<>> THEN <<Empty>>
    ELSE LET rest == SplitLines(Tail(text))
         IN  IF <<Head(text)>> = NL
             THEN <<Empty>> \o rest
             ELSE <<(<<Head(text)>> \o rest[1])>> \o Tail(rest)

\* the entries of a transcript: what follows each newline
EntriesOf(text) == Tail(SplitLines(text))

\* C26: a bull or bear turn that starts with count > 0 finds in
\* current_response the labelled argument of the other side's latest turn,
\* the last entry of the other side's transcript and of the shared one; the
\* first turn of the debate finds it empty.
C26_RebutsLatestOpposite ==
    node \in Debaters =>
        LET ids == state.investment_debate_state
            theirs == EntriesOf(ids[OwnHistory(Opposite(node))])
            all == EntriesOf(ids.history)
        IN  IF ids.count = 0
            THEN ids.current_response = Empty
            ELSE /\ InvestTurns[Len(InvestTurns)] = Opposite(node)
                 /\ StartsWith(ids.current_response, InvestLabel(Opposite(node)))
                 /\ Len(theirs) > 0
                 /\ ids.current_response = theirs[Len(theirs)]
                 /\ ids.current_response = all[Len(all)]

\* the bear is about to answer the bull's second argument
C26_Witness ==
    /\ node = "Bear Researcher"
    /\ round_count = 3
    /\ StartsWith(state.investment_debate_state.current_response, Str("Bull Analyst: "))

\* C27: the research manager leaves history, bull_history, bear_history and
\* count of the investment debate as it found them and sets judge_decision,
\* current_response and investment_plan to the one response of the model.
C27_ManagerKeepsTranscripts ==
    [][(node = "Research Manager" /\ error' = NoError) =>
          LET before == state.investment_debate_state
              after == state'.investment_debate_state
          IN  /\ after.history = before.history
              /\ after.bull_history = before.bull_history
              /\ after.bear_history = before.bear_history
              /\ after.count = before.count
              /\ after.judge_decision = Text(calls')
              /\ after.current_response = Text(calls')
              /\ state'.investment_plan = Text(calls')]_vars

\* the research manager judged a debate of two turns
C27_Witness ==
    /\ node = "Trader"
    /\ round_count = 2
    /\ "judge_decision" \in DOMAIN state.investment_debate_state
    /\ state.investment_debate_state.current_response = state.investment_plan
    /\ state.investment_debate_state.history # Empty

\* C28: after any bull and bear turns the shared transcript holds, in turn
\* order, exactly one entry per turn taken, the labelled argument of the
\* side that took it (each after a newline); bull_history and bear_history
\* hold the entries of their side, in the same order; the number of entries
\* of the shared transcript is count.
IsBullEntry(e) == StartsWith(e, Str("Bull Analyst: "))
IsBearEntry(e) == StartsWith(e, Str("Bear Analyst: "))

C28_TranscriptIsTurnsInOrder ==
    LET ids == state.investment_debate_state
        entries == EntriesOf(ids.history)
    IN  /\ SplitLines(ids.history)[1] = Empty
        /\ Len(entries) = ids.count
        /\ Len(entries) = Len(InvestTurns)
        /\ \A i \in 1..Len(entries) :
              /\ StartsWith(entries[i], InvestLabel(InvestTurns[i]))
              /\ Len(entries[i]) = Len(InvestLabel(InvestTurns[i])) + 1
              /\ \A j \in 1..Len(entries) : entries[i] = entries[j] => i = j
        /\ EntriesOf(ids.bull_history) = SelectSeq(entries, IsBullEntry)
        /\ EntriesOf(ids.bear_history) = SelectSeq(entries, IsBearEntry)

\* a debate of four turns is over
C28_Witness ==
    /\ node = "Research Manager"
    /\ round_count = 4
    /\ Len(EntriesOf(state.investment_debate_state.bull_history)) = 2
    /\ Len(EntriesOf(state.investment_debate_state.bear_history)) = 2

\* ------------------------------------------------------------------ properties of the signal

\* C25: the extraction is idempotent on its input: process_signal called
\* again on the same final_trade_decision gives the action it gave before.
C25_ExtractIdempotent ==
    [][(node = "END" /\ error' = NoError
          /\ state'.final_trade_decision = state.final_trade_decision)
        => decision' = decision]_vars

\* ------------------------------------------------------------------ properties of the situation key

\* the records of a store whose situation is a given key
RecordsWithKey(store, key) == {j \in 1..Len(store) : store[j].situation = key}

C30_ReadsWhereDownloadWrites ==
    /\ dataflows.interface_DATA_DIR # NotImported =>
          dataflows.interface_DATA_DIR = get_config(dataflows).data_dir
    /\ \A c \in toolLog :
          (c.tool = "get_finnhub_news" /\ ~c.local /\ c.api = "in range") =>
              StartsWith(c.result.value, Str("## ticker News, from before to curr_date:\n"))

====
